---- MODULE Spec2Model ----
(***************************************************************************)
(* Model of hangups/auth.py: the OAuth login of hangups.                   *)
(*                                                                         *)
(* A string is a sequence of symbols.  A symbol is either one character    *)
(* that matters to the code ("CR", "LF", "a") or a whole literal whose     *)
(* inner characters never matter ("Token request failed: ").               *)
(***************************************************************************)
EXTENDS Integers, Sequences, FiniteSets, TLC

\* ------------------------------------------------------------------------
\* Bounds
\* ------------------------------------------------------------------------
\* longest token string written to / read from the cache file
MaxTokenLen == 2
\* number of cache operations in one behaviour of SpecCache
MaxCacheOps == 2
\* number of consecutive get_auth invocations sharing one cache file
MaxRuns == 2
\* number of HTTP requests one session sends in SpecBrowser
MaxRequests == 2
\* number of fields in the input_dict of a submit_form call in SpecBrowser
MaxFields == 2

\* ------------------------------------------------------------------------
\* Strings
\* ------------------------------------------------------------------------
Chars == {"a", "CR", "LF"}

Strings == UNION {[1..n -> Chars] : n \in 0..MaxTokenLen}

\* Python's None, as a string no token can equal
None == <<"None">>

\* the cache file does not exist
NoFile == <<"NoFile">>

\* s occurs in msg as a contiguous piece
Embeds(msg, s) ==
    \E i \in 0..(Len(msg) - Len(s)) : SubSeq(msg, i + 1, i + Len(s)) = s

\* '{!r}'.format(s)
Repr(s) == <<"'">> \o s \o <<"'">>

\* ------------------------------------------------------------------------
\* Program constants
\* ------------------------------------------------------------------------
OAUTH2_LOGIN_URL == <<"https://accounts.google.com/o/oauth2/programmatic_auth">>
OAUTH2_TOKEN_REQUEST_URL == <<"https://accounts.google.com/o/oauth2/token">>
FORM_SELECTOR == "#gaia_loginform"
EMAIL_SELECTOR == "#Email"
PASSWORD_SELECTOR == "#Passwd"
VERIFICATION_FORM_SELECTOR == "#challenge"
VERIFICATION_CODE_SELECTOR == "#totpPin"

\* ------------------------------------------------------------------------
\* Exceptions and call outcomes
\* ------------------------------------------------------------------------
GoogleAuthError(msg) == [kind |-> "GoogleAuthError", msg |-> msg]
KeyError(key) == [kind |-> "KeyError", msg |-> Repr(key)]
ValueError(msg) == [kind |-> "ValueError", msg |-> msg]
IOError(msg) == [kind |-> "IOError", msg |-> msg]
NoExc == [kind |-> "none", msg |-> <<>>]

Return(v) == [exc |-> NoExc, val |-> v]
Raise(e) == [exc |-> e, val |-> None]
Raised(out) == out.exc.kind # "none"

\* ------------------------------------------------------------------------
\* RefreshTokenCache: a text file
\* ------------------------------------------------------------------------
\* os.linesep of the platform (POSIX)
os_linesep == <<"LF">>

\* what f.write(s) stores in a file opened in text mode 'w' (newline=None):
\* every '\n' becomes os.linesep
RECURSIVE TextWrite(_)
TextWrite(s) ==
    IF s = <<>> THEN <<>>
    ELSE IF Head(s) = "LF" THEN os_linesep \o TextWrite(Tail(s))
    ELSE <<Head(s)>> \o TextWrite(Tail(s))

\* what f.read() returns from a file opened in text mode 'r' (newline=None,
\* universal newlines): '\r\n' and a lone '\r' both become '\n'
RECURSIVE TextRead(_)
TextRead(s) ==
    IF s = <<>> THEN <<>>
    ELSE IF Head(s) = "CR"
         THEN IF Len(s) >= 2 /\ s[2] = "LF"
              THEN <<"LF">> \o TextRead(SubSeq(s, 3, Len(s)))
              ELSE <<"LF">> \o TextRead(Tail(s))
         ELSE <<Head(s)>> \o TextRead(Tail(s))

ReadOutcomes == {"ok", "ioerror"}
WriteOutcomes == {"ok", "open_ioerror", "write_ioerror"}

\* RefreshTokenCache.get on a file holding f; io is what the operating
\* system does to the read.  The value returned (None on IOError).
RefreshTokenCache_get(f, io) ==
    IF f = NoFile \/ io = "ioerror" THEN Return(None)
    ELSE Return(TextRead(f))

\* RefreshTokenCache.set with the file opened in mode 'a'
RefreshTokenCache_set_Append(f, refresh_token, io, k) ==
    [file |-> CASE io = "ok" ->
                     (IF f = NoFile THEN <<>> ELSE f) \o TextWrite(refresh_token)
                [] io = "open_ioerror" -> f
                [] OTHER -> SubSeq(TextWrite(refresh_token), 1, k),
     out |-> Return(refresh_token)]

\* RefreshTokenCache.set without the except clause: the IOError gets out
RefreshTokenCache_set_Raises(f, refresh_token, io, k) ==
    [file |-> CASE io = "ok" -> TextWrite(refresh_token)
                [] io = "open_ioerror" -> f
                [] OTHER -> SubSeq(TextWrite(refresh_token), 1, k),
     out |-> IF io = "ok" THEN Return(refresh_token)
             ELSE Raise(IOError(<<"Input/output error">>))]

\* RefreshTokenCache.set: the file after the call and the value returned.
\* open(..., 'w') failing leaves the file alone; a failure after the open
\* leaves the truncated file with the first k symbols that reached it.
RefreshTokenCache_set(f, refresh_token, io, k) ==
    [file |-> CASE io = "ok" -> TextWrite(refresh_token)
                [] io = "open_ioerror" -> f
                [] OTHER -> SubSeq(TextWrite(refresh_token), 1, k),
     out |-> Return(refresh_token)]

\* ------------------------------------------------------------------------
\* HTTP
\* ------------------------------------------------------------------------
\* status codes the provider answers with: one that raise_for_status()
\* accepts and one it rejects
StatusCodes == {200, 400}

\* raise_for_status() raises HTTPError for a 4xx or 5xx status
IsHTTPError(status_code) == status_code >= 400

\* str() of the HTTPError of raise_for_status(): status, reason and URL, never
\* the body
HTTPErrorStr(status_code, url) ==
    <<ToString(status_code), " Client Error for url: ">> \o url

\* str() of the RequestException of a request that got no response
TransportErrorStr == <<"ConnectionError">>

\* ------------------------------------------------------------------------
\* Token endpoint
\* ------------------------------------------------------------------------
ACCESS_TOKENS == {<<"T">>}
REFRESH_TOKENS == {<<"R">>, <<"R", "CR">>}
AUTH_CODES == {<<"C">>}
ERROR_CODES == {<<"invalid_grant">>}

\* parsed JSON objects of the token endpoint; a key that is absent is None
TokenDicts ==
    [access_token : ACCESS_TOKENS \cup {None},
     refresh_token : REFRESH_TOKENS \cup {None},
     error : ERROR_CODES \cup {None}]

NoDict == [access_token |-> None, refresh_token |-> None, error |-> None]

\* a response of the token endpoint: no response at all (transport failure),
\* or a status with a body that is JSON (dict) or is not
TokenResponses ==
    {[transport |-> FALSE, status_code |-> 0, json |-> FALSE, dict |-> NoDict]}
    \cup [transport : {TRUE}, status_code : StatusCodes, json : {TRUE},
          dict : TokenDicts]
    \cup [transport : {TRUE}, status_code : StatusCodes, json : {FALSE},
          dict : {NoDict}]

\* _make_token_request without the look for the key 'error'
make_token_request_NoErrorKey(r) ==
    IF ~r.transport
    THEN Raise(GoogleAuthError(<<"Token request failed: ">> \o TransportErrorStr))
    ELSE IF IsHTTPError(r.status_code)
    THEN Raise(GoogleAuthError(<<"Token request failed: ">>
               \o HTTPErrorStr(r.status_code, OAUTH2_TOKEN_REQUEST_URL)))
    ELSE IF ~r.json
    THEN Raise(ValueError(<<"No JSON object could be decoded">>))
    ELSE [exc |-> NoExc, val |-> r.dict]

\* _make_token_request: the parsed dict, or the exception raised
make_token_request(r) ==
    IF ~r.transport
    THEN Raise(GoogleAuthError(<<"Token request failed: ">> \o TransportErrorStr))
    ELSE IF IsHTTPError(r.status_code)
    THEN Raise(GoogleAuthError(<<"Token request failed: ">>
               \o HTTPErrorStr(r.status_code, OAUTH2_TOKEN_REQUEST_URL)))
    ELSE IF ~r.json
    THEN Raise(ValueError(<<"No JSON object could be decoded">>))
    ELSE IF r.dict.error # None
    THEN Raise(GoogleAuthError(<<"Token request error: ">> \o Repr(r.dict.error)))
    ELSE [exc |-> NoExc, val |-> r.dict]

\* _auth_with_refresh_token: res['access_token']
auth_with_refresh_token(r) ==
    LET res == make_token_request(r) IN
    IF Raised(res) THEN [exc |-> res.exc, access_token |-> None]
    ELSE IF res.val.access_token = None
    THEN [exc |-> KeyError(<<"access_token">>), access_token |-> None]
    ELSE [exc |-> NoExc, access_token |-> res.val.access_token]

\* _auth_with_code returning the two tokens in the other order
auth_with_code_Swapped(r) ==
    LET res == make_token_request(r) IN
    IF Raised(res) THEN [exc |-> res.exc, access_token |-> None, refresh_token |-> None]
    ELSE IF res.val.access_token = None
    THEN [exc |-> KeyError(<<"access_token">>), access_token |-> None,
          refresh_token |-> None]
    ELSE IF res.val.refresh_token = None
    THEN [exc |-> KeyError(<<"refresh_token">>), access_token |-> None,
          refresh_token |-> None]
    ELSE [exc |-> NoExc, access_token |-> res.val.refresh_token,
          refresh_token |-> res.val.access_token]

\* _auth_with_code: res['access_token'], res['refresh_token']
auth_with_code(r) ==
    LET res == make_token_request(r) IN
    IF Raised(res) THEN [exc |-> res.exc, access_token |-> None, refresh_token |-> None]
    ELSE IF res.val.access_token = None
    THEN [exc |-> KeyError(<<"access_token">>), access_token |-> None,
          refresh_token |-> None]
    ELSE IF res.val.refresh_token = None
    THEN [exc |-> KeyError(<<"refresh_token">>), access_token |-> None,
          refresh_token |-> None]
    ELSE [exc |-> NoExc, access_token |-> res.val.access_token,
          refresh_token |-> res.val.refresh_token]

\* ------------------------------------------------------------------------
\* Pages, forms and cookies
\* ------------------------------------------------------------------------
FormSelectors == {FORM_SELECTOR, VERIFICATION_FORM_SELECTOR}
FieldSelectors == {EMAIL_SELECTOR, PASSWORD_SELECTOR, VERIFICATION_CODE_SELECTOR}

\* the value of an input element the form does not have
Absent == "<absent>"

\* a form element with the input elements S, all empty
Form(S) ==
    [present |-> TRUE,
     fields |-> [f \in FieldSelectors |-> IF f \in S THEN "" ELSE Absent]]

\* soup.select(form_selector) finds nothing
NoForm == [present |-> FALSE, fields |-> [f \in FieldSelectors |-> Absent]]

\* a parsed document: what each form selector finds
Soup(login, challenge) ==
    [s \in FormSelectors |-> IF s = FORM_SELECTOR THEN login ELSE challenge]

\* the documents the provider serves
ServerSoups ==
    {Soup(Form({EMAIL_SELECTOR}), NoForm),
     Soup(Form({PASSWORD_SELECTOR}), NoForm),
     Soup(Form({EMAIL_SELECTOR, PASSWORD_SELECTOR}), NoForm),
     Soup(NoForm, Form({VERIFICATION_CODE_SELECTOR})),
     Soup(NoForm, Form({})),
     Soup(NoForm, NoForm)}

\* a cookie of the session's jar
OAuthCodeCookies ==
    [name : {"oauth_code"}, domain : {"accounts.google.com"}, value : AUTH_CODES]
SessionCookies ==
    {[name |-> "SID", domain |-> ".google.com", value |-> <<"s">>],
     [name |-> "PREF", domain |-> ".youtube.com", value |-> <<"y">>]}

\* a response to a page load or a form submission: none (transport failure)
\* or a status, a document and the cookies it sets
PageResponses ==
    {[transport |-> FALSE, status_code |-> 0, soup |-> Soup(NoForm, NoForm),
      set_cookies |-> {}]}
    \cup [transport : {TRUE}, status_code : StatusCodes, soup : ServerSoups,
          set_cookies : {{}} \cup {{c} : c \in OAuthCodeCookies}]

\* Browser._page before the Browser exists; serial numbers the responses of
\* one session, so that two responses are two pages even with equal content
NoPage == [serial |-> 0, status_code |-> 0, soup |-> Soup(NoForm, NoForm)]

PageOf(r, serial) ==
    [serial |-> serial, status_code |-> r.status_code, soup |-> r.soup]

\* ------------------------------------------------------------------------
\* Browser
\* ------------------------------------------------------------------------
\* Browser.__init__ without raise_for_status()
Browser_init_NoStatusCheck(r, serial) ==
    IF ~r.transport
    THEN [exc |-> GoogleAuthError(<<"Failed to load form: ">> \o TransportErrorStr),
          page |-> NoPage]
    ELSE [exc |-> NoExc, page |-> PageOf(r, serial)]

\* Browser.__init__: the page of the new Browser, or the exception
Browser_init(r, serial) ==
    IF ~r.transport
    THEN [exc |-> GoogleAuthError(<<"Failed to load form: ">> \o TransportErrorStr),
          page |-> NoPage]
    ELSE IF IsHTTPError(r.status_code)
    THEN [exc |-> GoogleAuthError(<<"Failed to load form: ">>
                      \o HTTPErrorStr(r.status_code, OAUTH2_LOGIN_URL)),
          page |-> NoPage]
    ELSE [exc |-> NoExc, page |-> PageOf(r, serial)]

\* has_form that finds any form, whatever the selector
has_form_AnyForm(pg, form_selector) ==
    \E sel \in FormSelectors : pg.soup[sel].present

\* Browser.has_form
has_form(pg, form_selector) == pg.soup[form_selector].present

\* the loop of submit_form over input_dict.items(), a sequence of
\* <<selector, value>> in iteration order: each assignment changes the
\* element in the document at once; the first selector the form lacks raises
RECURSIVE FillForm(_, _)
FillForm(form, items) ==
    IF items = <<>> THEN [exc |-> NoExc, form |-> form]
    ELSE LET selector == items[1][1]
             value == items[1][2]
         IN IF form.fields[selector] = Absent
            THEN [exc |-> GoogleAuthError(<<"Failed to find input ">>
                              \o Repr(<<selector>>) \o <<" in form">>),
                  form |-> form]
            ELSE FillForm([form EXCEPT !.fields[selector] = value], Tail(items))

\* Browser.submit_form on the current page pg: the exception raised, the
\* current page afterwards, and whether a request was sent.  r is the
\* provider's response to the submission, serial the number of that response.
submit_form(pg, form_selector, input_dict, r, serial) ==
    IF ~pg.soup[form_selector].present
    THEN [exc |-> GoogleAuthError(<<"Failed to find form ">>
                      \o Repr(<<form_selector>>) \o <<" in page">>),
          page |-> pg, sent |-> FALSE]
    ELSE LET filled == FillForm(pg.soup[form_selector], input_dict)
             pgFilled == [pg EXCEPT !.soup[form_selector] = filled.form]
         IN IF filled.exc # NoExc
            THEN [exc |-> filled.exc, page |-> pgFilled, sent |-> FALSE]
            ELSE IF ~r.transport
            THEN [exc |-> GoogleAuthError(<<"Failed to submit form: ">>
                              \o TransportErrorStr),
                  page |-> pgFilled, sent |-> TRUE]
            ELSE IF IsHTTPError(r.status_code)
            THEN [exc |-> GoogleAuthError(<<"Failed to submit form: ">>
                              \o HTTPErrorStr(r.status_code, OAUTH2_LOGIN_URL)),
                  page |-> PageOf(r, serial), sent |-> TRUE]
            ELSE [exc |-> NoExc, page |-> PageOf(r, serial), sent |-> TRUE]

\* Browser.get_cookie: session.cookies[name]
get_cookie(jar, name) ==
    IF \E c \in jar : c.name = name
    THEN Return((CHOOSE c \in jar : c.name = name).value)
    ELSE Raise(KeyError(<<name>>))

\* session.cookies.get_dict(domain=...)
get_dict(jar, domain) == {c \in jar : c.domain = domain}

\* ------------------------------------------------------------------------
\* Session cookie derivation
\* ------------------------------------------------------------------------
UBERAUTHS == {<<"U">>, <<"U", "&">>}

\* a response to one of the two GETs of _get_session_cookies
FinalizeResponses ==
    {[transport |-> FALSE, status_code |-> 0, text |-> <<>>, set_cookies |-> {}]}
    \cup [transport : {TRUE}, status_code : StatusCodes, text : UBERAUTHS,
          set_cookies : {{}} \cup {{c} : c \in SessionCookies}]

\* the exception of a failed GET of _get_session_cookies, NoExc if it passed
session_get(r, name, url) ==
    IF ~r.transport
    THEN GoogleAuthError(<<name, " request failed: ">> \o TransportErrorStr)
    ELSE IF IsHTTPError(r.status_code)
    THEN GoogleAuthError(<<name, " request failed: ">>
             \o HTTPErrorStr(r.status_code, url))
    ELSE NoExc

OAuthLoginURL == <<"https://accounts.google.com/accounts/OAuthLogin">>
\* the MergeSession URL with the uberauth value left out
MergeSessionURL_NoUberauth(uber) ==
    <<"https://accounts.google.com/MergeSession?uberauth=">>

MergeSessionURL(uber) == <<"https://accounts.google.com/MergeSession?uberauth=">> \o uber

\* session_cookies without the test for an empty dict
session_cookies_Unchecked(jar) ==
    [exc |-> NoExc, val |-> get_dict(jar, ".google.com")]

\* the end of _get_session_cookies: the cookies of the provider's domain,
\* an exception if there are none
session_cookies(jar) ==
    LET cookies_ == get_dict(jar, ".google.com") IN
    IF cookies_ = {}
    THEN [exc |-> GoogleAuthError(<<"Failed to find session cookies">>), val |-> {}]
    ELSE [exc |-> NoExc, val |-> cookies_]

\* ------------------------------------------------------------------------
\* State
\* ------------------------------------------------------------------------
VARIABLES
    pc,                  \* position in get_auth
    run,                 \* number of the get_auth invocation
    prev,                \* the token the invocation before stored, or None
    file,                \* content of the refresh token file
    refresh_token,       \* local of get_auth
    access_token,        \* local of get_auth
    authorization_code,  \* local of get_auth
    email,               \* local of _get_authorization_code
    password,            \* local of _get_authorization_code
    verfification_code,  \* local of _get_authorization_code
    page,                \* Browser._page
    requests,            \* number of requests the Browser has sent
    cookies,             \* session.cookies
    uberauth,            \* local of _get_session_cookies
    log,                 \* the external calls of this invocation, in order
    result,              \* how get_auth ended
    tok,                 \* the token request just made and what it raised
    cprev,               \* the cache operation before the last one
    clast,               \* the last cache operation
    cops,                \* number of cache operations done
    call                 \* the last Browser call and what it raised

vars == <<pc, run, prev, file, refresh_token, access_token, authorization_code,
          email, password, verfification_code, page, requests, cookies,
          uberauth, log, result, tok, cprev, clast, cops, call>>

authVars == <<pc, run, prev, refresh_token, access_token, authorization_code,
              email, password, verfification_code, uberauth, log, result, tok>>
cacheVars == <<cprev, clast, cops>>
browserVars == <<page, requests, cookies>>

\* a credential not asked for yet
Unset == "<unset>"

EMAILS == {"user@x.com"}
PASSWORDS == {"pw"}
VERIFICATION_CODES == {"123456"}

NoResult == [kind |-> "none", exc |-> NoExc, val |-> {}]
NoTok == [made |-> FALSE, grant |-> "none",
          resp |-> [transport |-> FALSE, status_code |-> 0, json |-> FALSE,
                    dict |-> NoDict],
          exc |-> NoExc]
NoOp == [op |-> "none", arg |-> None, io |-> "ok", ret |-> None, raised |-> FALSE]
NoCall == [op |-> "none", before |-> NoPage, form_selector |-> FORM_SELECTOR,
           input_dict |-> <<>>, exc |-> NoExc, sent |-> FALSE]

\* the content the file can have when get_auth starts: no file, an empty
\* file, a token stored by an earlier login
InitFiles == {NoFile, <<>>} \cup {TextWrite(t) : t \in REFRESH_TOKENS}

InitAuthVars ==
    /\ pc = "cache_get"
    /\ refresh_token = None
    /\ access_token = None
    /\ authorization_code = None
    /\ email = Unset
    /\ password = Unset
    /\ verfification_code = Unset
    /\ uberauth = None
    /\ log = <<>>
    /\ result = NoResult
    /\ tok = NoTok

InitOther ==
    /\ page = NoPage
    /\ requests = 0
    /\ cookies = {}
    /\ cprev = NoOp
    /\ clast = NoOp
    /\ cops = 0
    /\ call = NoCall

Init ==
    /\ run = 1
    /\ prev = None
    /\ file \in InitFiles
    /\ InitAuthVars
    /\ InitOther

\* ------------------------------------------------------------------------
\* get_auth
\* ------------------------------------------------------------------------
\* the positions inside the try block of get_auth
TryBlock == {"cache_get", "refresh"}

\* Handler with the call of _get_session_cookies inside the try block
Handler_FinalizeInTry(at, exc) ==
    IF at \in TryBlock \cup {"oauth_login", "merge_session"}
       /\ exc.kind = "GoogleAuthError"
    THEN "browser" ELSE "done"

\* Handler that starts the credential path again when the code-grant
\* exchange raised GoogleAuthError
Handler_RetryCredentials(at, exc) ==
    IF (at \in TryBlock \/ at = "auth_code") /\ exc.kind = "GoogleAuthError"
    THEN "browser" ELSE "done"

\* where an exception raised at position at takes get_auth: the except
\* clause catches GoogleAuthError raised inside the try block and starts the
\* credential path; anything else leaves get_auth
Handler(at, exc) ==
    IF at \in TryBlock /\ exc.kind = "GoogleAuthError" THEN "browser" ELSE "done"

Raising(at, exc) ==
    /\ pc' = Handler(at, exc)
    /\ result' = IF Handler(at, exc) = "done"
                 THEN [kind |-> "raise", exc |-> exc, val |-> {}]
                 ELSE result

\* one more external call: whether it succeeded, what it raised, and the
\* token it returned or was given
\* io is what the operating system did to a call on the cache file
LoggedIO(step, ok, exc, val, io) ==
    log' = Append(log, [step |-> step, ok |-> ok, exc |-> exc, val |-> val,
                        io |-> io])

Logged(step, ok, exc, val) == LoggedIO(step, ok, exc, val, "none")

\* refresh_token_cache.get(), and the raise when it returned None
CacheGet ==
    /\ pc = "cache_get"
    /\ \E io \in ReadOutcomes :
         LET out == RefreshTokenCache_get(file, io) IN
         LET exc == IF Raised(out) THEN out.exc
                    ELSE IF out.val = None
                    THEN GoogleAuthError(<<"Refresh token not found">>)
                    ELSE NoExc
         IN
         /\ refresh_token' = out.val
         /\ LoggedIO("cache_get", exc = NoExc, exc, out.val, io)
         /\ IF exc # NoExc
            THEN Raising("cache_get", exc)
            ELSE pc' = "refresh" /\ UNCHANGED result
    /\ tok' = NoTok
    /\ UNCHANGED <<run, prev, file, access_token, authorization_code, email, password,
                   verfification_code, uberauth, browserVars, cacheVars, call>>

\* _auth_with_refresh_token(session, refresh_token)
RefreshExchange ==
    /\ pc = "refresh"
    /\ \E r \in TokenResponses :
         LET out == auth_with_refresh_token(r) IN
         /\ tok' = [made |-> TRUE, grant |-> "refresh_token", resp |-> r,
                    exc |-> out.exc]
         /\ Logged("refresh", out.exc = NoExc, out.exc, None)
         /\ IF out.exc # NoExc
            THEN Raising("refresh", out.exc) /\ UNCHANGED access_token
            ELSE /\ access_token' = out.access_token
                 /\ pc' = "oauth_login"
                 /\ UNCHANGED result
    /\ UNCHANGED <<run, prev, file, refresh_token, authorization_code, email, password,
                   verfification_code, uberauth, browserVars, cacheVars, call>>

\* Browser(session, OAUTH2_LOGIN_URL)
BrowserOpen ==
    /\ pc = "browser"
    /\ \E r \in PageResponses :
         LET out == Browser_init(r, requests + 1) IN
         /\ page' = out.page
         /\ cookies' = cookies \cup r.set_cookies
         /\ Logged("browser", out.exc = NoExc, out.exc, None)
         /\ IF out.exc # NoExc
            THEN Raising("browser", out.exc)
            ELSE pc' = "get_email" /\ UNCHANGED result
    /\ requests' = requests + 1
    /\ tok' = NoTok
    /\ UNCHANGED <<run, prev, file, refresh_token, access_token, authorization_code,
                   email, password, verfification_code, uberauth, cacheVars, call>>

\* browser.submit_form(form_selector, {field_selector: value}) at position at
Submit(at, form_selector, field_selector, value, next) ==
    /\ pc = at
    /\ \E r \in PageResponses :
         LET out == submit_form(page, form_selector,
                                <<<<field_selector, value>>>>, r, requests + 1)
         IN
         /\ page' = out.page
         /\ requests' = IF out.sent THEN requests + 1 ELSE requests
         /\ cookies' = IF out.sent THEN cookies \cup r.set_cookies ELSE cookies
         /\ Logged(at, out.exc = NoExc, out.exc, None)
         /\ IF out.exc # NoExc
            THEN Raising(at, out.exc)
            ELSE /\ pc' = IF next = "has_form"
                          THEN IF has_form(out.page, VERIFICATION_FORM_SELECTOR)
                               THEN "get_verification_code"
                               ELSE "get_cookie"
                          ELSE next
                 /\ UNCHANGED result
    /\ tok' = NoTok
    /\ UNCHANGED <<run, prev, file, refresh_token, access_token, authorization_code,
                   email, password, verfification_code, uberauth, cacheVars, call>>

\* credentials_prompt.get_email()
GetEmail ==
    /\ pc = "get_email"
    /\ email' \in EMAILS
    /\ Logged("get_email", TRUE, NoExc, None)
    /\ pc' = "submit_email"
    /\ tok' = NoTok
    /\ UNCHANGED <<run, prev, file, refresh_token, access_token, authorization_code,
                   password, verfification_code, uberauth, result, browserVars,
                   cacheVars, call>>

SubmitEmail ==
    Submit("submit_email", FORM_SELECTOR, EMAIL_SELECTOR, email, "get_password")

\* credentials_prompt.get_password()
GetPassword ==
    /\ pc = "get_password"
    /\ password' \in PASSWORDS
    /\ Logged("get_password", TRUE, NoExc, None)
    /\ pc' = "submit_password"
    /\ tok' = NoTok
    /\ UNCHANGED <<run, prev, file, refresh_token, access_token, authorization_code,
                   email, verfification_code, uberauth, result, browserVars,
                   cacheVars, call>>

\* the password submission, then browser.has_form(VERIFICATION_FORM_SELECTOR)
SubmitPassword ==
    Submit("submit_password", FORM_SELECTOR, PASSWORD_SELECTOR, password, "has_form")

\* credentials_prompt.get_verification_code()
GetVerificationCode ==
    /\ pc = "get_verification_code"
    /\ verfification_code' \in VERIFICATION_CODES
    /\ Logged("get_verification_code", TRUE, NoExc, None)
    /\ pc' = "submit_code"
    /\ tok' = NoTok
    /\ UNCHANGED <<run, prev, file, refresh_token, access_token, authorization_code,
                   email, password, uberauth, result, browserVars, cacheVars, call>>

SubmitCode ==
    Submit("submit_code", VERIFICATION_FORM_SELECTOR, VERIFICATION_CODE_SELECTOR,
           verfification_code, "get_cookie")

\* get_cookie's KeyError let through
authorization_code_cookie_Leaks(jar) == get_cookie(jar, "oauth_code")

\* the end of _get_authorization_code: the KeyError of get_cookie becomes a
\* GoogleAuthError
authorization_code_cookie(jar) ==
    LET out == get_cookie(jar, "oauth_code") IN
    IF out.exc.kind = "KeyError"
    THEN Raise(GoogleAuthError(<<"Authorization code cookie not found">>))
    ELSE out

GetCookie ==
    /\ pc = "get_cookie"
    /\ LET out == authorization_code_cookie(cookies) IN
         /\ Logged("get_cookie", out.exc = NoExc, out.exc, out.val)
         /\ IF out.exc # NoExc
            THEN Raising("get_cookie", out.exc) /\ UNCHANGED authorization_code
            ELSE /\ authorization_code' = out.val
                 /\ pc' = "auth_code"
                 /\ UNCHANGED result
    /\ tok' = NoTok
    /\ UNCHANGED <<run, prev, file, refresh_token, access_token, email, password,
                   verfification_code, uberauth, browserVars, cacheVars, call>>

\* _auth_with_code(session, authorization_code)
CodeExchange ==
    /\ pc = "auth_code"
    /\ \E r \in TokenResponses :
         LET out == auth_with_code(r) IN
         /\ tok' = [made |-> TRUE, grant |-> "authorization_code", resp |-> r,
                    exc |-> out.exc]
         /\ Logged("auth_code", out.exc = NoExc, out.exc, out.refresh_token)
         /\ IF out.exc # NoExc
            THEN Raising("auth_code", out.exc)
                 /\ UNCHANGED <<access_token, refresh_token>>
            ELSE /\ access_token' = out.access_token
                 /\ refresh_token' = out.refresh_token
                 /\ pc' = "cache_set"
                 /\ UNCHANGED result
    /\ UNCHANGED <<run, prev, file, authorization_code, email, password,
                   verfification_code, uberauth, browserVars, cacheVars, call>>

\* refresh_token_cache.set(refresh_token)
CacheSet ==
    /\ pc = "cache_set"
    /\ \E io \in WriteOutcomes : \E k \in 0..Len(TextWrite(refresh_token)) :
         LET r == RefreshTokenCache_set(file, refresh_token, io, k) IN
         /\ io # "write_ioerror" => k = 0
         /\ file' = r.file
         /\ LoggedIO("cache_set", io = "ok", r.out.exc, refresh_token, io)
         /\ IF Raised(r.out)
            THEN Raising("cache_set", r.out.exc)
            ELSE pc' = "oauth_login" /\ UNCHANGED result
    /\ tok' = NoTok
    /\ UNCHANGED <<run, prev, refresh_token, access_token, authorization_code, email,
                   password, verfification_code, uberauth, browserVars,
                   cacheVars, call>>

\* the first GET of _get_session_cookies
OAuthLogin ==
    /\ pc = "oauth_login"
    /\ \E r \in FinalizeResponses :
         LET exc == session_get(r, "OAuthLogin", OAuthLoginURL) IN
         /\ cookies' = cookies \cup r.set_cookies
         /\ Logged("oauth_login", exc = NoExc, exc,
                   IF exc = NoExc THEN r.text ELSE None)
         /\ IF exc # NoExc
            THEN Raising("oauth_login", exc) /\ UNCHANGED uberauth
            ELSE /\ uberauth' = r.text
                 /\ pc' = "merge_session"
                 /\ UNCHANGED result
    /\ tok' = NoTok
    /\ UNCHANGED <<run, prev, file, refresh_token, access_token, authorization_code,
                   email, password, verfification_code, page, requests,
                   cacheVars, call>>

\* the second GET of _get_session_cookies and the look at the cookie jar
MergeSession ==
    /\ pc = "merge_session"
    /\ \E r \in FinalizeResponses :
         LET exc == session_get(r, "MergeSession", MergeSessionURL(uberauth))
             out == session_cookies(cookies \cup r.set_cookies)
         IN
         /\ cookies' = cookies \cup r.set_cookies
         /\ Logged("merge_session", exc = NoExc /\ out.exc = NoExc,
                   IF exc # NoExc THEN exc ELSE out.exc,
                   MergeSessionURL(uberauth))
         /\ IF exc # NoExc
            THEN Raising("merge_session", exc)
            ELSE IF out.exc # NoExc
            THEN Raising("merge_session", out.exc)
            ELSE /\ pc' = "done"
                 /\ result' = [kind |-> "return", exc |-> NoExc, val |-> out.val]
    /\ tok' = NoTok
    /\ UNCHANGED <<run, prev, file, refresh_token, access_token, authorization_code,
                   email, password, verfification_code, uberauth, page, requests,
                   cacheVars, call>>

\* the token a cache_set of this invocation wrote without failure, else None
StoredToken ==
    IF \E i \in DOMAIN log : log[i].step = "cache_set" /\ log[i].ok
    THEN log[CHOOSE i \in DOMAIN log : log[i].step = "cache_set" /\ log[i].ok].val
    ELSE None

\* the caller invokes get_auth again, with a new session and the same file
Restart ==
    /\ pc = "done"
    /\ run < MaxRuns
    /\ run' = run + 1
    /\ prev' = StoredToken
    /\ pc' = "cache_get"
    /\ refresh_token' = None
    /\ access_token' = None
    /\ authorization_code' = None
    /\ email' = Unset
    /\ password' = Unset
    /\ verfification_code' = Unset
    /\ uberauth' = None
    /\ log' = <<>>
    /\ result' = NoResult
    /\ tok' = NoTok
    /\ page' = NoPage
    /\ requests' = 0
    /\ cookies' = {}
    /\ UNCHANGED <<file, cacheVars, call>>

Next ==
    \/ CacheGet
    \/ RefreshExchange
    \/ BrowserOpen
    \/ GetEmail
    \/ SubmitEmail
    \/ GetPassword
    \/ SubmitPassword
    \/ GetVerificationCode
    \/ SubmitCode
    \/ GetCookie
    \/ CodeExchange
    \/ CacheSet
    \/ OAuthLogin
    \/ MergeSession
    \/ Restart

Spec == Init /\ [][Next]_vars

TypeOK ==
    /\ pc \in {"idle", "cache_get", "refresh", "browser", "get_email", "submit_email",
               "get_password", "submit_password", "get_verification_code",
               "submit_code", "get_cookie", "auth_code", "cache_set",
               "oauth_login", "merge_session", "done"}
    /\ run \in 1..MaxRuns
    /\ result.kind \in {"none", "return", "raise"}

\* ------------------------------------------------------------------------
\* Properties of get_auth
\* ------------------------------------------------------------------------
CredentialSourceSteps == {"get_email", "get_password", "get_verification_code"}
BrowserSteps == {"browser", "submit_email", "submit_password", "submit_code",
                 "get_cookie"}
RefreshPathSteps == {"cache_get", "refresh"}
FinalizeSteps == {"oauth_login", "merge_session"}
\* the steps whose failure no one recovers from
TerminalSteps == {"browser", "submit_email", "submit_password", "submit_code",
                  "get_cookie", "auth_code", "oauth_login", "merge_session"}

Did(step) == \E i \in DOMAIN log : log[i].step = step
Succeeded(step) == \E i \in DOMAIN log : log[i].step = step /\ log[i].ok
Failed(step) == \E i \in DOMAIN log : log[i].step = step /\ ~log[i].ok
Count(step) == Cardinality({i \in DOMAIN log : log[i].step = step})

\* C1: when the cache returned a token and the refresh-grant exchange for
\* it succeeded, no Credential Source operation is invoked and no Browser is
\* constructed or used, whatever _get_session_cookies does afterwards.
C1_RefreshNeverPrompts ==
    Succeeded("refresh") =>
        /\ \A i \in DOMAIN log :
               log[i].step \notin CredentialSourceSteps \cup BrowserSteps
        /\ page = NoPage
        /\ requests = 0
        /\ email = Unset /\ password = Unset /\ verfification_code = Unset

\* the refresh-token path succeeded and the finalize stage then failed
C1_Witness ==
    /\ pc = "done"
    /\ Succeeded("cache_get")
    /\ Succeeded("refresh")
    /\ result.kind = "raise"
    /\ log[Len(log)].step \in FinalizeSteps

\* C2 (as claimed): when the cache returned no token or the refresh-grant
\* exchange failed, the credential path is entered exactly once, and a
\* returned cookie map was preceded by exactly one Token Cache.set, called
\* with the refresh token of the code-grant exchange.
C2_FallbackAlwaysTaken ==
    (pc = "done" /\ (Failed("cache_get") \/ Failed("refresh"))) =>
        /\ Count("browser") = 1
        /\ result.kind = "return" =>
               /\ Count("cache_set") = 1
               /\ \E i, j \in DOMAIN log :
                      /\ i < j
                      /\ log[i].step = "auth_code" /\ log[i].ok
                      /\ log[j].step = "cache_set"
                      /\ log[j].val = log[i].val

\* C3: only a failure on the refresh-token path is recovered from, by the
\* credential path; a failure of any credential-path step or of the finalize
\* stage is the last step of get_auth, which ends with that error; no step is
\* done twice.
C3_OnlyRefreshRecovered ==
    /\ \A i \in DOMAIN log :
           (~log[i].ok /\ log[i].step \in TerminalSteps) =>
               /\ i = Len(log)
               /\ pc = "done"
               /\ result.kind = "raise"
               /\ result.exc = log[i].exc
    /\ \A i, j \in DOMAIN log : log[i].step = log[j].step => i = j
    /\ Did("browser") =>
           \E i \in DOMAIN log :
               /\ log[i].step \in RefreshPathSteps
               /\ ~log[i].ok
               /\ \A j \in DOMAIN log : log[j].step = "browser" => i < j
    /\ (Succeeded("refresh") /\ \E i \in DOMAIN log :
            log[i].step \in FinalizeSteps /\ ~log[i].ok) => ~Did("browser")

\* the credential path was entered after a failed refresh exchange and its
\* code-grant exchange failed
C3_Witness ==
    /\ pc = "done"
    /\ Failed("refresh")
    /\ Failed("auth_code")
    /\ result.kind = "raise"

\* C4 (as claimed): get_auth ends by returning a cookie map or by raising
\* GoogleAuthError, never another kind of error.
C4_OnlyAuthError ==
    pc = "done" => (result.kind = "return" \/ result.exc.kind = "GoogleAuthError")

\* a token-endpoint response with success status, a JSON object without
\* 'error', that lacks a key the grant needs
LacksExpectedKey(t) ==
    /\ t.made
    /\ t.resp.transport
    /\ ~IsHTTPError(t.resp.status_code)
    /\ t.resp.json
    /\ t.resp.dict.error = None
    /\ \/ t.resp.dict.access_token = None
       \/ t.grant = "authorization_code" /\ t.resp.dict.refresh_token = None

\* C5 (as claimed): a success response without 'error' that lacks an
\* expected key makes the exchange fail with GoogleAuthError: the refresh
\* path then falls back to the credential path, the credential path ends
\* get_auth with GoogleAuthError.
C5_MissingKeyIsAuthError ==
    LacksExpectedKey(tok) =>
        /\ tok.exc.kind = "GoogleAuthError"
        /\ tok.grant = "refresh_token" => pc = "browser"
        /\ tok.grant = "authorization_code" =>
               (pc = "done" /\ result.exc.kind = "GoogleAuthError")

\* the token request just made was answered with a JSON object holding 'error'
AnsweredWithError(t) ==
    /\ t.made
    /\ t.resp.transport
    /\ t.resp.json
    /\ t.resp.dict.error # None

\* C6 (as claimed): a JSON response with an 'error' key makes the token
\* request fail with a GoogleAuthError whose message embeds the error
\* value, whatever the status code.
C6_ErrorAlwaysEmbedded ==
    AnsweredWithError(tok) =>
        /\ tok.exc.kind = "GoogleAuthError"
        /\ Embeds(tok.exc.msg, tok.resp.dict.error)

\* C6 (amended): a JSON response with an 'error' key makes the token request
\* fail with a GoogleAuthError whatever the status code; the message embeds
\* the error value when the status is a success status, and is the message
\* of the failed request otherwise.
C6_ErrorEmbeddedOnSuccessStatus ==
    AnsweredWithError(tok) =>
        /\ tok.exc.kind = "GoogleAuthError"
        /\ IF IsHTTPError(tok.resp.status_code)
           THEN tok.exc.msg = <<"Token request failed: ">>
                    \o HTTPErrorStr(tok.resp.status_code, OAUTH2_TOKEN_REQUEST_URL)
           ELSE Embeds(tok.exc.msg, Repr(tok.resp.dict.error))

\* a success response that holds both 'error' and the tokens asked for
C6_Witness ==
    /\ AnsweredWithError(tok)
    /\ ~IsHTTPError(tok.resp.status_code)
    /\ tok.resp.dict.access_token # None
    /\ tok.resp.dict.refresh_token # None
    /\ tok.grant = "authorization_code"
    /\ pc = "done"

\* C9: a cookie map returned by get_auth is never empty: when both GETs
\* of _get_session_cookies succeeded and the jar holds no cookie of the
\* provider's domain, get_auth raises GoogleAuthError.
C9_NoEmptyCookieMap ==
    /\ result.kind = "return" => result.val # {}
    /\ (pc = "done" /\ Did("merge_session")
        /\ get_dict(cookies, ".google.com") = {}) =>
           (result.kind = "raise" /\ result.exc.kind = "GoogleAuthError")

\* both GETs succeeded, the jar holds cookies of another domain only
C9_Witness ==
    /\ pc = "done"
    /\ Succeeded("oauth_login")
    /\ log[Len(log)].step = "merge_session"
    /\ log[Len(log)].exc = GoogleAuthError(<<"Failed to find session cookies">>)
    /\ cookies # {}
    /\ get_dict(cookies, ".google.com") = {}

\* ------------------------------------------------------------------------
\* RefreshTokenCache used on its own
\* ------------------------------------------------------------------------
InitCache ==
    /\ run = 1
    /\ prev = None
    /\ file \in {NoFile, <<>>, <<"a">>}
    /\ pc = "idle"
    /\ refresh_token = None
    /\ access_token = None
    /\ authorization_code = None
    /\ email = Unset
    /\ password = Unset
    /\ verfification_code = Unset
    /\ uberauth = None
    /\ log = <<>>
    /\ result = NoResult
    /\ tok = NoTok
    /\ InitOther

\* a caller's refresh_token_cache.set(t)
TokenCacheSet ==
    /\ cops < MaxCacheOps
    /\ \E t \in Strings : \E io \in WriteOutcomes : \E k \in 0..Len(TextWrite(t)) :
         LET r == RefreshTokenCache_set(file, t, io, k) IN
         /\ io # "write_ioerror" => k = 0
         /\ file' = r.file
         /\ clast' = [op |-> "set", arg |-> t, io |-> io, ret |-> r.out.val,
                      raised |-> Raised(r.out)]
    /\ cprev' = clast
    /\ cops' = cops + 1
    /\ UNCHANGED <<authVars, browserVars, call>>

\* a caller's refresh_token_cache.get()
TokenCacheGet ==
    /\ cops < MaxCacheOps
    /\ \E io \in ReadOutcomes :
         LET out == RefreshTokenCache_get(file, io) IN
         clast' = [op |-> "get", arg |-> None, io |-> io, ret |-> out.val,
                   raised |-> Raised(out)]
    /\ cprev' = clast
    /\ cops' = cops + 1
    /\ UNCHANGED <<file, authVars, browserVars, call>>

NextCache == TokenCacheSet \/ TokenCacheGet

SpecCache == InitCache /\ [][NextCache]_vars

\* C10 (as claimed): set(t) followed by get() returns t when no I/O
\* failure occurs; with an I/O failure get() returns None without raising;
\* set(t) returns t without raising, with or without an I/O failure.
C10_RoundTrip ==
    /\ (cprev.op = "set" /\ clast.op = "get") =>
           /\ (cprev.io = "ok" /\ clast.io = "ok") => clast.ret = cprev.arg
           /\ clast.io = "ioerror" => (clast.ret = None /\ ~clast.raised)
    /\ clast.op = "set" => (clast.ret = clast.arg /\ ~clast.raised)

\* ------------------------------------------------------------------------
\* Browser used on its own
\* ------------------------------------------------------------------------
FIELD_VALUES == {"x"}

\* the items of an input_dict in iteration order: no selector twice
InputDicts ==
    {d \in UNION {[1..n -> FieldSelectors \X FIELD_VALUES] : n \in 0..MaxFields} :
        \A i, j \in DOMAIN d : d[i][1] = d[j][1] => i = j}

InitBrowser == InitCache /\ file = NoFile

\* a caller's Browser(session, url)
NewBrowser ==
    /\ page = NoPage
    /\ requests < MaxRequests
    /\ \E r \in PageResponses :
         LET out == Browser_init(r, requests + 1) IN
         /\ page' = out.page
         /\ cookies' = cookies \cup r.set_cookies
         /\ call' = [op |-> "init", before |-> page,
                     form_selector |-> FORM_SELECTOR, input_dict |-> <<>>,
                     exc |-> out.exc, sent |-> TRUE]
    /\ requests' = requests + 1
    /\ UNCHANGED <<file, authVars, cacheVars>>

\* a caller's browser.submit_form(form_selector, input_dict)
BrowserSubmit ==
    /\ page # NoPage
    /\ requests < MaxRequests
    /\ \E form_selector \in FormSelectors : \E d \in InputDicts :
       \E r \in PageResponses :
         LET out == submit_form(page, form_selector, d, r, requests + 1) IN
         /\ page' = out.page
         /\ requests' = IF out.sent THEN requests + 1 ELSE requests
         /\ cookies' = IF out.sent THEN cookies \cup r.set_cookies ELSE cookies
         /\ call' = [op |-> "submit_form", before |-> page,
                     form_selector |-> form_selector, input_dict |-> d,
                     exc |-> out.exc, sent |-> out.sent]
    /\ UNCHANGED <<file, authVars, cacheVars>>

NextBrowser == NewBrowser \/ BrowserSubmit

SpecBrowser == InitBrowser /\ [][NextBrowser]_vars

\* the selectors of the call's input_dict that its form does not have
AbsentSelectors(c) ==
    {c.input_dict[i][1] : i \in {j \in DOMAIN c.input_dict :
         c.before.soup[c.form_selector].fields[c.input_dict[j][1]] = Absent}}

\* C7 (as claimed): submit_form with a field selector the located form
\* lacks raises GoogleAuthError naming such a selector, sends no request, and
\* leaves the current page and the content of its document as they were.
C7_MissingFieldLeavesPage ==
    (/\ call.op = "submit_form"
     /\ has_form(call.before, call.form_selector)
     /\ AbsentSelectors(call) # {}) =>
        /\ call.exc.kind = "GoogleAuthError"
        /\ \E sel \in AbsentSelectors(call) : Embeds(call.exc.msg, <<sel>>)
        /\ ~call.sent
        /\ page = call.before

\* C8 (as claimed): a submit_form whose request failed or was answered
\* with a non-success status leaves the current page the page it was; the
\* page is replaced only when the submission succeeds.
C8_FailedSubmitKeepsPage ==
    call.op = "submit_form" =>
        /\ (call.sent /\ call.exc # NoExc) => page.serial = call.before.serial
        /\ page.serial # call.before.serial => call.exc = NoExc

\* ------------------------------------------------------------------------
\* Properties of get_auth: storage, paths and order
\* ------------------------------------------------------------------------
\* C11: storage failures do not change whether get_auth fails: a read
\* failure is taken like an absent token (the credential path starts), and
\* after a write failure of Token Cache.set get_auth goes on to the finalize
\* stage, whose outcome alone decides the result.
C11_StorageFailuresAbsorbed ==
    /\ \A i \in DOMAIN log :
           (log[i].step = "cache_get" /\ log[i].io = "ioerror") =>
               /\ log[i].val = None
               /\ log[i].exc = GoogleAuthError(<<"Refresh token not found">>)
               /\ IF i = Len(log)
                  THEN pc = "browser" /\ result = NoResult
                  ELSE log[i + 1].step = "browser"
    /\ \A i \in DOMAIN log :
           log[i].step = "cache_set" =>
               /\ log[i].exc = NoExc
               /\ IF i = Len(log)
                  THEN pc = "oauth_login" /\ result = NoResult
                  ELSE log[i + 1].step = "oauth_login"
    /\ (pc = "done" /\ Did("cache_set")) =>
           /\ result.kind = "return" <=> Succeeded("merge_session")
           /\ result.kind = "return" =>
                  result.val = get_dict(cookies, ".google.com")

\* the read failed, the write failed, and get_auth returned a cookie map
C11_Witness ==
    /\ pc = "done"
    /\ log[1].step = "cache_get" /\ log[1].io = "ioerror"
    /\ \E i \in DOMAIN log : log[i].step = "cache_set" /\ log[i].io # "ok"
    /\ result.kind = "return"

CredentialPathSteps == BrowserSteps \cup CredentialSourceSteps \cup {"auth_code"}

\* C12 (as claimed): no run performs both a refresh-token-path step and
\* a credential-path step.
C12_ExactlyOnePath ==
    ~ /\ \E i \in DOMAIN log : log[i].step \in RefreshPathSteps
      /\ \E i \in DOMAIN log : log[i].step \in CredentialPathSteps

\* C12 (amended): the refresh-token path is always attempted first; a
\* credential-path step is performed only after the refresh-token path failed
\* and never in a run where the refresh-grant exchange succeeded; the access
\* token of the finalize stage comes from exactly one of the two paths.
C12_OnePathYieldsToken ==
    /\ log # <<>> => log[1].step = "cache_get"
    /\ \A j \in DOMAIN log :
           log[j].step \in CredentialPathSteps =>
               /\ ~Succeeded("refresh")
               /\ \E i \in 1..(j - 1) :
                      log[i].step \in RefreshPathSteps /\ ~log[i].ok
    /\ ~(Succeeded("refresh") /\ Succeeded("auth_code"))
    /\ (\E i \in DOMAIN log : log[i].step \in FinalizeSteps) =>
           (Succeeded("refresh") \/ Succeeded("auth_code"))

\* both paths were taken in one run that returned a cookie map
C12_Witness ==
    /\ pc = "done"
    /\ Succeeded("cache_get")
    /\ Failed("refresh")
    /\ Succeeded("auth_code")
    /\ result.kind = "return"

\* the credential path of this run has ended with a code-grant exchange
\* that succeeded
CredentialPathEnded ==
    Succeeded("auth_code") /\ pc \in {"oauth_login", "merge_session", "done"}

\* C13 (as claimed): once the credential path has ended after a
\* successful code-grant exchange, the file holds exactly the new refresh
\* token, also when the write failed.
C13_AlwaysOverwritten ==
    CredentialPathEnded =>
        \E i \in DOMAIN log :
            log[i].step = "auth_code" /\ log[i].ok /\ file = log[i].val

\* C13 (amended): after a successful code-grant exchange Token
\* Cache.set is called once with the new refresh token; when the write does
\* not fail the file then holds exactly that token; a failed open leaves the
\* file as it was, a failure after the open leaves an empty file or a
\* leading part of the token.
C13_OverwrittenUnlessWriteFails ==
    /\ [](CredentialPathEnded =>
            /\ Count("cache_set") = 1
            /\ \A i, j \in DOMAIN log :
                   (log[i].step = "auth_code" /\ log[j].step = "cache_set") =>
                       /\ i < j
                       /\ log[j].val = log[i].val
                       /\ log[j].io = "ok" => file = log[j].val
                       /\ log[j].io = "write_ioerror" =>
                              \E k \in 0..Len(log[j].val) :
                                  file = SubSeq(log[j].val, 1, k))
    /\ [][(pc = "cache_set" /\ pc' # "cache_set"
           /\ log'[Len(log')].io = "open_ioerror") => file' = file]_vars

\* the write succeeded over a file that held something else
C13_Witness ==
    /\ pc = "done"
    /\ CredentialPathEnded
    /\ refresh_token = <<"R", "CR">>
    /\ file = refresh_token
    /\ log[1].step = "cache_get" /\ log[1].val = <<"R">>
    /\ \E j \in DOMAIN log : log[j].step = "cache_set" /\ log[j].io = "ok"

\* C14: Token Cache.set is called at most once per run, only after the
\* code-grant exchange succeeded and only with the refresh token it returned,
\* never with the access token or the authorization code; the file changes
\* in no other step, so runs through the refresh-token path and runs that
\* fail before the code-grant exchange succeeds leave it as it was.
C14_WrittenOnlyAfterLogin ==
    /\ [](/\ Count("cache_set") <= 1
          /\ \A j \in DOMAIN log :
                 log[j].step = "cache_set" =>
                     /\ \E i \in 1..(j - 1) :
                            /\ log[i].step = "auth_code"
                            /\ log[i].ok
                            /\ log[i].val = log[j].val
                     /\ log[j].val \in REFRESH_TOKENS
                     /\ log[j].val # access_token
                     /\ log[j].val # authorization_code)
    /\ [][file' # file => (pc = "cache_set" /\ Succeeded("auth_code"))]_vars

\* Token Cache.set has just stored the refresh token of the code grant
C14_Witness ==
    /\ pc = "oauth_login"
    /\ Count("cache_set") = 1
    /\ Succeeded("cache_set")
    /\ refresh_token \in REFRESH_TOKENS
    /\ file = TextWrite(refresh_token)

\* C15 (as claimed): when the invocation before stored a refresh token
\* without a write failure, this invocation loads exactly that token (its
\* read not failing), and if the provider accepts it, invokes neither the
\* Credential Source nor the Browser.
C15_SecondRunReloads ==
    (run >= 2 /\ prev # None /\ log # <<>> /\ log[1].io = "ok") =>
        /\ log[1].step = "cache_get"
        /\ log[1].val = prev
        /\ Succeeded("refresh") =>
               \A i \in DOMAIN log : log[i].step \notin CredentialPathSteps

\* the steps of _get_authorization_code in the order of the code
LoginOrder ==
    <<"browser", "get_email", "submit_email", "get_password", "submit_password",
      "get_verification_code", "submit_code", "get_cookie">>

LoginPos(step) == CHOOSE n \in DOMAIN LoginOrder : LoginOrder[n] = step

\* the steps that may come right before step, each having succeeded
LoginBefore(step) ==
    CASE step = "get_email" -> {"browser"}
      [] step = "submit_email" -> {"get_email"}
      [] step = "get_password" -> {"submit_email"}
      [] step = "submit_password" -> {"get_password"}
      [] step = "get_verification_code" -> {"submit_password"}
      [] step = "submit_code" -> {"get_verification_code"}
      [] step = "get_cookie" -> {"submit_password", "submit_code"}
      [] OTHER -> RefreshPathSteps

\* C16: the credential path takes its steps in the fixed order, each at
\* most once and each right after the success of the one before
\* (get_password only after the email submission succeeded);
\* get_verification_code is invoked exactly when the page that the successful
\* password submission led to has the verification form.
C16_LoginOrder ==
    /\ [](/\ \A i, j \in DOMAIN log :
                 (/\ i < j
                  /\ log[i].step \in BrowserSteps \cup CredentialSourceSteps
                  /\ log[j].step \in BrowserSteps \cup CredentialSourceSteps) =>
                     LoginPos(log[i].step) < LoginPos(log[j].step)
          /\ \A j \in DOMAIN log :
                 log[j].step \in BrowserSteps \cup CredentialSourceSteps =>
                     /\ j > 1
                     /\ log[j - 1].step \in LoginBefore(log[j].step)
                     /\ log[j].step # "browser" => log[j - 1].ok)
    /\ [][(pc = "submit_password" /\ pc' \notin {"submit_password", "done"}) =>
             /\ pc' \in {"get_verification_code", "get_cookie"}
             /\ pc' = "get_verification_code" <=>
                    page'.soup[VERIFICATION_FORM_SELECTOR].present]_vars

\* a login with a verification step that returned a cookie map
C16_Witness ==
    /\ pc = "done"
    /\ Succeeded("submit_code")
    /\ verfification_code \in VERIFICATION_CODES
    /\ result.kind = "return"

\* C17: the MergeSession GET is issued only right after an OAuthLogin
\* GET that succeeded, with a URL that ends in the body text of that response
\* as it came; a failed OAuthLogin GET is the last step; the GoogleAuthError
\* of a failed GET starts with the name of the call that failed.
C17_SessionCallsChained ==
    /\ \A j \in DOMAIN log :
           log[j].step = "merge_session" =>
               /\ j > 1
               /\ log[j - 1].step = "oauth_login"
               /\ log[j - 1].ok
               /\ log[j - 1].val \in UBERAUTHS
               /\ log[j].val =
                      <<"https://accounts.google.com/MergeSession?uberauth=">>
                          \o log[j - 1].val
               /\ (~log[j].ok /\ log[j].exc #
                       GoogleAuthError(<<"Failed to find session cookies">>)) =>
                      /\ log[j].exc.kind = "GoogleAuthError"
                      /\ log[j].exc.msg[1] = "MergeSession"
                      /\ ~Embeds(log[j].exc.msg, <<"OAuthLogin">>)
    /\ \A j \in DOMAIN log :
           (log[j].step = "oauth_login" /\ ~log[j].ok) =>
               /\ j = Len(log)
               /\ pc = "done"
               /\ log[j].exc.kind = "GoogleAuthError"
               /\ log[j].exc.msg[1] = "OAuthLogin"
               /\ ~Embeds(log[j].exc.msg, <<"MergeSession">>)
               /\ result.exc = log[j].exc

\* the MergeSession GET failed after an OAuthLogin GET whose body holds '&'
C17_Witness ==
    /\ pc = "done"
    /\ uberauth = <<"U", "&">>
    /\ log[Len(log)].step = "merge_session"
    /\ log[Len(log)].exc.kind = "GoogleAuthError"
    /\ log[Len(log)].exc.msg[1] = "MergeSession"

\* C18: when the login page cannot be fetched (no response or a
\* non-success status), get_auth ends at once with GoogleAuthError: no
\* Credential Source operation, no code-grant request, no write of the file;
\* a login page with a non-success status never becomes the Browser's page.
C18_LoginPageFailure ==
    /\ Failed("browser") =>
           /\ pc = "done"
           /\ log[Len(log)].step = "browser"
           /\ result.kind = "raise"
           /\ result.exc.kind = "GoogleAuthError"
           /\ result.exc.msg[1] = "Failed to load form: "
           /\ \A i \in DOMAIN log :
                  log[i].step \notin
                      CredentialSourceSteps \cup {"auth_code", "cache_set"}
           /\ email = Unset /\ password = Unset /\ verfification_code = Unset
           /\ page = NoPage
    /\ page.serial = 1 => ~IsHTTPError(page.status_code)

\* the login page was answered with a non-success status
C18_Witness ==
    /\ pc = "done"
    /\ Failed("browser")
    /\ Embeds(result.exc.msg, <<"400">>)

\* C19: when the session holds no oauth_code cookie after the form
\* submissions, get_auth ends with a GoogleAuthError (the KeyError of
\* get_cookie does not get out): no code-grant request, no Token Cache.set,
\* no finalize stage.
C19_MissingCodeCookie ==
    /\ Failed("get_cookie") =>
           /\ pc = "done"
           /\ log[Len(log)].step = "get_cookie"
           /\ result.kind = "raise"
           /\ result.exc = GoogleAuthError(<<"Authorization code cookie not found">>)
           /\ \A i \in DOMAIN log :
                  log[i].step \notin {"auth_code", "cache_set"} \cup FinalizeSteps
           /\ authorization_code = None
           /\ access_token = None
    /\ (Did("get_cookie") /\ \A c \in cookies : c.name # "oauth_code") =>
           Failed("get_cookie")

\* the login went through the verification step and set no oauth_code cookie
C19_Witness ==
    /\ pc = "done"
    /\ Succeeded("submit_code")
    /\ Failed("get_cookie")
    /\ cookies = {}

\* ------------------------------------------------------------------------
\* get_auth when every external call returns
\* ------------------------------------------------------------------------
\* one statement of get_auth: get_auth has no loop and a single thread of
\* control, so it advances whenever the call it waits for returns
GetAuthStep ==
    \/ CacheGet
    \/ RefreshExchange
    \/ BrowserOpen
    \/ GetEmail
    \/ SubmitEmail
    \/ GetPassword
    \/ SubmitPassword
    \/ GetVerificationCode
    \/ SubmitCode
    \/ GetCookie
    \/ CodeExchange
    \/ CacheSet
    \/ OAuthLogin
    \/ MergeSession

SpecFair == Spec /\ WF_vars(GetAuthStep)

TokenRequestSteps == {"refresh", "auth_code"}
SubmitSteps == {"submit_email", "submit_password", "submit_code"}

CountIn(S) == Cardinality({i \in DOMAIN log : log[i].step \in S})

ResourceBounds ==
    /\ CountIn(TokenRequestSteps) <= 2
    /\ Count("refresh") <= 1
    /\ Count("auth_code") <= 1
    /\ Count("browser") <= 1
    /\ CountIn(SubmitSteps) <= 3
    /\ requests <= 4
    /\ Count("cache_set") <= 1
    /\ CountIn(FinalizeSteps) <= 2
    /\ \A i, j \in DOMAIN log : log[i].step = log[j].step => i = j

\* C20: when every external call returns, every run of get_auth ends
\* (with its cookies or with an exception), after at most two token requests
\* (one refresh grant, one code grant), one login-page load, three form
\* submissions, one storage write and two session-derivation calls, and
\* without repeating a step.
C20_TerminatesWithinBounds ==
    /\ []ResourceBounds
    /\ [](pc # "done" => <>(pc = "done"))

\* a run that ended after using every resource up to its bound
C20_Witness ==
    /\ pc = "done"
    /\ CountIn(TokenRequestSteps) = 2
    /\ Count("browser") = 1
    /\ CountIn(SubmitSteps) = 3
    /\ Count("cache_set") = 1
    /\ CountIn(FinalizeSteps) = 2

====
